---- MODULE Spec2Model ----
(***************************************************************************)
(* GasTag bridge firmware (ESP32Firmware/src/main.c, ota_update.c).        *)
(*                                                                         *)
(* Three execution contexts are modelled for the update-mode part:         *)
(*   - the main control loop of app_main (program counter mpc),            *)
(*   - the GATT server callback gatts_event_handler (atomic events),       *)
(*   - the HTTP server task running update_post_handler (program counter   *)
(*     hpc), one request at a time.                                        *)
(* Steps are split at every access to a variable another context uses.     *)
(***************************************************************************)
EXTENDS Integers, Sequences, FiniteSets, TLC

VARIABLES
    \* ---- main.c globals and the main loop
    ota_mode_requested, \* main.c:88
    mpc,                \* position of app_main's loop
    ble_enabled,        \* bluedroid / controller up (setup_ble .. teardown)
    advertising,        \* esp_ble_gap_start/stop_advertising
    device_connected,   \* main.c:81
    ota_elapsed,        \* xTaskGetTickCount() - ota_start_time, in minutes;
                        \* 0 outside the wait loop, where it is not read
    restarted,          \* "none", or the context that called esp_restart
    \* ---- ota_update.c module state
    current_state, update_progress, last_error, http_server,
    total_size, received_size, update_partition, ota_handle,
    \* ---- flash
    written,            \* chunk lengths written to update_partition, in order
    boot_partition,     \* partition the bootloader will start
    \* ---- update_post_handler locals
    hpc, content_len, remaining, first_chunk, recv_len, hdr_magic, resp,
    \* ---- history (not read by the program)
    cmds,               \* update-mode commands received
    late_cmd,           \* one of them came after the clear, radio still up
    teardowns,          \* radio teardowns run by the main loop
    starts,             \* calls of ota_start_update_mode
    accepted,           \* uploads that passed the length check
    rx,                 \* chunk lengths received by this upload, in order
    fault,              \* platform failure injected into this upload
    shorts,             \* short reads delivered to this upload
    \* ---- main.c: USB host task, its callbacks, the line framer
    upc,                \* position of usb_host_task
    cbpc,               \* position of new_device_cb
    device_available, detected_vid, detected_pid,   \* main.c:45-47
    vid, pid,           \* locals of usb_host_task, main.c:269-270
    cdc_open,           \* cdc_dev is an open device handle
    cdc_dev_present,    \* the device behind cdc_dev is still plugged in
    attached,           \* a serial device is plugged in
    device_disconnected_sem,    \* binary semaphore, main.c:94
    clk,                \* xTaskGetTickCount() * portTICK_PERIOD_MS
    last_data_time_ms,  \* main.c:97
    now_ms,             \* local of the watchdog check, main.c:317
    take_start,         \* time xSemaphoreTake began to wait
    line_buffer, last_reading,  \* main.c:90-92 (line_buffer_pos is the length)
    sent,               \* payloads passed to esp_ble_gatts_send_indicate
    rx_calls,           \* history: calls of handle_rx
    wd_closes,          \* history: sessions closed by the watchdog
    line_events,        \* history: line events of the bytes fed, in order
    fed,                \* history: bytes of feed the framer has been given
    feed,               \* bytes the serial device has still to deliver
    \* ---- main.c: attribute bring-up and the GATT session
    evq,                \* confirmation events the stack has still to deliver
    reqs,               \* requests gatts_event_handler made of the stack
    dups,               \* history: confirmations delivered a second time
    stored,             \* attributes whose handle variable has been assigned
    adv_config_done, scan_rsp_config_done,          \* main.c:342-343
    subscribed,         \* the client enabled notifications in the descriptor
    gatt_evt,           \* history: the request event handled last
    rsp_log             \* responses sent while handling gatt_evt

bleVars  == <<ota_mode_requested, ble_enabled, advertising, device_connected,
              cmds, late_cmd>>
mainVars == <<mpc, ota_elapsed, teardowns, starts>>
otaVars  == <<current_state, update_progress, last_error, http_server>>
upVars   == <<total_size, received_size, update_partition, ota_handle,
              written, boot_partition>>
hVars    == <<hpc, content_len, remaining, first_chunk, recv_len, hdr_magic,
              resp, accepted, rx, fault, shorts>>

usbVars  == <<upc, cbpc, device_available, detected_vid, detected_pid, vid,
              pid, cdc_open, cdc_dev_present, attached, device_disconnected_sem, clk,
              last_data_time_ms, now_ms, take_start, wd_closes>>
lineVars ==
    <<line_buffer, last_reading, sent, rx_calls, line_events, feed, fed>>
bringVars == <<evq, reqs, dups, stored, adv_config_done,
               scan_rsp_config_done>>
sessVars == <<subscribed, gatt_evt, rsp_log>>
gattVars == <<bringVars, sessVars>>

vars == <<bleVars, mainVars, otaVars, upVars, hVars, restarted, usbVars,
          lineVars, gattVars>>

----------------------------------------------------------------------------
(* Program constants *)

OTA_CHUNK_SIZE        == 4096
OTA_TIMEOUT_MIN       == 5
IMAGE_HEADER_SIZE     == 24
ESP_IMAGE_HEADER_MAGIC == 233
OTA_ERR_WIFI_INIT     == 4097
OTA_ERR_WIFI_START    == 4098
OTA_ERR_HTTP_INIT     == 4099
OTA_ERR_OTA_BEGIN     == 4100
OTA_ERR_OTA_WRITE     == 4101
OTA_ERR_OTA_END       == 4102
OTA_ERR_VALIDATION    == 4103
OTA_ERR_SET_BOOT      == 4104
OTA_ERR_TIMEOUT       == 4105
HTTPD_SOCK_ERR_FAIL    == -1
HTTPD_SOCK_ERR_TIMEOUT == -3
OTA_CMD_ENTER         == 1

\* Attribute handles handed out by the stack during bring-up.
char_handle         == 42
version_char_handle == 45
ota_char_handle     == 47

DATA_TIMEOUT_MS   == 5000
SEM_WAIT_MS       == 1000
LINE_BUFFER_SIZE  == 256
ESP_GATT_IF_NONE  == 255
\* Interface number handed to ESP_GATTS_REG_EVT during bring-up.
gatts_if          == 3
\* Handle the stack gave the notification descriptor (the firmware keeps no
\* copy of it).
cccd_handle       == 43
ESP_GATT_OK       == 0

(* Bounds of the model *)
MaxClockSteps == 7   \* clock steps the USB part of a run lasts
MaxDupEvents  == 1   \* bring-up confirmations delivered a second time
MaxFeedLen    == 3   \* length of the exhaustively enumerated byte streams
MaxOverflow   == 2   \* bytes by which a fed line exceeds the buffer
MaxTornAt     == 2   \* bytes strncpy has copied when a racing read happens
MaxRxCalls    == 2   \* calls of handle_rx in a run

MaxCmds       == 2   \* update-mode commands the client sends
MaxUploads    == 2   \* uploads that pass the length check
MaxShortReads == 1   \* reads per upload returning less than asked for
MaxChunksLeft == 3   \* chunks a large upload is away from its end

OtaStates == {"IDLE", "WIFI_STARTING", "WIFI_READY", "UPDATING",
              "VALIDATING", "SUCCESS", "FAILED"}

RunningPartition == "ota_0"
NextPartition    == "ota_1"

\* Declared Content-Length values of upload requests (req->content_len).
\* A size_t is held as its 32 bits read as an int, so that lengths from 2^31
\* up appear negative: the last one is a Content-Length of 3000000000.
ContentLens == {0, 16, 24, 8192, -1294967296}
\* First byte of a received chunk.
FirstBytes  == {ESP_IMAGE_HEADER_MAGIC, 0}
\* Lengths a short read may return.
ShortLens   == {IMAGE_HEADER_SIZE - 1, IMAGE_HEADER_SIZE}
\* Uploads in progress: <<declared length, bytes received and written>>.  A
\* small image from the start and after a short first read of 2076 bytes;
\* large ones up to MaxChunksLeft chunks before their end, on both sides of
\* the length at which received * 100 reaches 2^32.
UploadPoints ==
    {<<24, 0>>, <<12345, 0>>, <<12345, 2076>>}
    \cup {<<t, t - k * OTA_CHUNK_SIZE>> :
             t \in {8192 * 1024, 42949672, 42949673, 42953768, 50000000,
                    2147483647},
             k \in 1..MaxChunksLeft}
\* Payloads of a write request, handles it may target.
WriteValues  == {<<>>, <<OTA_CMD_ENTER>>, <<2>>, <<OTA_CMD_ENTER, 0>>}
WriteHandles == {char_handle, ota_char_handle, cccd_handle, 99}
\* Handles a read request may target.
ReadHandles  == {char_handle, version_char_handle, ota_char_handle,
                 cccd_handle, 99}
\* FIRMWARE_VERSION "1.0.3" as character codes.
FIRMWARE_VERSION == <<49, 46, 48, 46, 51>>
\* The attributes of the service, by the UUID array that identifies them.
AttrNames == {"char_uuid128", "version_char_uuid128", "ota_char_uuid128"}
\* The record kept of a request event; NoEvent before the first one.
NoEvent == [type |-> "none", handle |-> 0, value |-> <<>>, need_rsp |-> FALSE]
\* The clock is read in steps of one semaphore wait.
ClockStepMs == SEM_WAIT_MS
\* Vendor/product identities of the devices plugged in.
DeviceIds == {<<1027, 24577>>, <<4292, 60000>>}
\* Data blocks the serial device delivers to handle_rx: 'A', LF, "B\r", BEL.
RxBlocks == {<<65>>, <<10>>, <<66, 13>>, <<7>>}
\* The blocks delivered while a client reads: RxBlocks and "AA\n".
BleBlocks == RxBlocks \cup {<<65, 65, 10>>}
\* 'A' n times.
Run(n) == [i \in 1..n |-> 65]
\* All byte strings over alphabet of length at most n.
RECURSIVE Strings(_, _)
Strings(alphabet, n) ==
    IF n = 0 THEN {<<>>}
    ELSE LET shorter == Strings(alphabet, n - 1)
         IN shorter \cup {Append(w, c) : w \in shorter, c \in alphabet}
\* Byte streams fed to the framer: every string of up to MaxFeedLen bytes over
\* 'A', LF, CR, BEL; "AA\nBB\r\nC"; bytes at the edges of the printable
\* range; lines around the capacity of the buffer, one of them continued.
FramerInputs ==
    Strings({65, 10, 13, 7}, MaxFeedLen)
    \cup {<<65, 65, 10, 66, 66, 13, 10, 67>>,
          <<31, 32, 126, 127, 200, 0, 10>>}
    \cup {Run(LINE_BUFFER_SIZE - 2 + i) \o <<10>> : i \in 0..MaxOverflow}
    \cup {Run(LINE_BUFFER_SIZE - 1 + MaxOverflow) \o <<7, 66, 13, 10, 65>>}

----------------------------------------------------------------------------
(* C arithmetic *)

\* A size_t and the int it is converted to have the same 32 bits
\* (ota_update.c:139, int remaining = req->content_len), which is how the
\* model holds both; sums and differences of the sizes that are received and
\* written stay below 2^31 and are exact.
MIN(a, b) == IF a < b THEN a ELSE b

RECURSIVE SumSeq(_)
SumSeq(s) == IF s = <<>> THEN 0 ELSE Head(s) + SumSeq(Tail(s))

----------------------------------------------------------------------------
\* Update-mode state after app_main's set-up (main.c:576-589, ota_init).
InitUpdate ==
    /\ ota_mode_requested = FALSE
    /\ mpc = "poll"
    /\ ble_enabled = TRUE
    /\ device_connected = FALSE
    /\ ota_elapsed = 0
    /\ restarted = "none"
    /\ current_state = "IDLE"
    /\ update_progress = -1
    /\ last_error = 0
    /\ http_server = FALSE
    /\ total_size = 0
    /\ received_size = 0
    /\ update_partition = "NULL"
    /\ ota_handle = "none"
    /\ written = <<>>
    /\ boot_partition = RunningPartition
    /\ hpc = "idle"
    /\ content_len = 0
    /\ remaining = 0
    /\ first_chunk = FALSE
    /\ recv_len = 0
    /\ hdr_magic = 0
    /\ resp = "none"
    /\ cmds = 0
    /\ late_cmd = FALSE
    /\ teardowns = 0
    /\ starts = 0
    /\ accepted = 0
    /\ rx = <<>>
    /\ fault = "none"
    /\ shorts = 0

\* usb_host_task before any device was seen (main.c:45-47, 94-97, 216-260).
InitUsbIdle ==
    /\ upc = "wait_dev"
    /\ cbpc = "idle"
    /\ device_available = FALSE
    /\ detected_vid = 0
    /\ detected_pid = 0
    /\ vid = 0
    /\ pid = 0
    /\ cdc_open = FALSE
    /\ cdc_dev_present = FALSE
    /\ attached = FALSE
    /\ device_disconnected_sem = 0
    /\ clk = 0
    /\ last_data_time_ms = 0
    /\ now_ms = 0
    /\ take_start = 0
    /\ wd_closes = 0

\* usb_host_task right after it opened the device id (main.c:288-312).
InitUsbOpen(id) ==
    /\ upc = "take"
    /\ cbpc = "idle"
    /\ device_available = FALSE
    /\ detected_vid = id[1]
    /\ detected_pid = id[2]
    /\ vid = id[1]
    /\ pid = id[2]
    /\ cdc_open = TRUE
    /\ cdc_dev_present = TRUE
    /\ attached = TRUE
    /\ device_disconnected_sem = 0
    /\ clk = 0
    /\ last_data_time_ms = 0
    /\ now_ms = 0
    /\ take_start = 0
    /\ wd_closes = 0

\* The framer's buffers as declared (main.c:90-92); the device has sent nothing.
InitLine ==
    /\ line_buffer = <<>>
    /\ last_reading = <<>>
    /\ sent = <<>>
    /\ rx_calls = 0
    /\ line_events = <<>>
    /\ fed = <<>>

\* No client has connected yet.
InitSession ==
    /\ subscribed = FALSE
    /\ gatt_evt = NoEvent
    /\ rsp_log = <<>>

\* The order in which the handler asks for the service and its attributes.
BringUpOrder ==
    <<"service", "char_uuid128", "cccd", "version_char_uuid128",
      "ota_char_uuid128">>

\* setup_ble has returned (main.c:541-573): the application is registered and
\* ESP_GATTS_REG_EVT is on its way.
InitBringUp ==
    /\ \E st \in {"ok", "error"} :
          evq = {[ev |-> "REG", uuid |-> "none", status |-> st]}
    /\ reqs = <<>>
    /\ dups = 0
    /\ stored = {}
    /\ adv_config_done = FALSE
    /\ scan_rsp_config_done = FALSE
    /\ advertising = FALSE

\* Bring-up has run to its end without an error or a repeated confirmation.
BringUpDone ==
    /\ evq = {}
    /\ reqs = BringUpOrder
    /\ dups = 0
    /\ stored = AttrNames
    /\ adv_config_done = TRUE
    /\ scan_rsp_config_done = TRUE
    /\ advertising = TRUE

\* The device in bridge mode, bring-up complete, no serial device seen yet.
Init ==
    /\ InitUpdate /\ InitUsbIdle /\ InitLine /\ InitSession /\ BringUpDone
    /\ feed = <<>>

Running == restarted = "none"

\* esp_restart(): the device reboots.  RAM is lost, flash is kept; the run
\* ends here (what the rebooted firmware does is a new run from Init).
EspRestart(by) ==
    /\ restarted' = by
    /\ mpc' = "halt"
    /\ hpc' = "halt"
    /\ ota_mode_requested' = FALSE
    /\ ble_enabled' = FALSE
    /\ advertising' = FALSE
    /\ device_connected' = FALSE
    /\ ota_elapsed' = 0
    /\ current_state' = "IDLE"
    /\ update_progress' = -1
    /\ last_error' = 0
    /\ http_server' = FALSE
    /\ total_size' = 0
    /\ received_size' = 0
    /\ update_partition' = "NULL"
    /\ ota_handle' = "none"
    /\ content_len' = 0
    /\ remaining' = 0
    /\ first_chunk' = FALSE
    /\ recv_len' = 0
    /\ hdr_magic' = 0
    /\ resp' = "none"
    /\ rx' = <<>>
    /\ fault' = "none"
    /\ shorts' = 0
    /\ UNCHANGED <<written, boot_partition>>
    /\ UNCHANGED <<cmds, late_cmd, teardowns, starts, accepted>>
    /\ UNCHANGED <<usbVars, lineVars, gattVars>>

----------------------------------------------------------------------------
(* gatts_event_handler and gap_event_handler: bring-up, main.c:345-460 *)

\* The confirmation the stack will deliver for a request, with its status.
Confirmation(ev, uuid, st) == [ev |-> ev, uuid |-> uuid, status |-> st]

\* main.c:375-460  what gatts_event_handler asks of the stack on event e:
\* the request and the event that will confirm it.  The status field of e is
\* not read anywhere in the handler.
NextRequest(e) ==
    CASE e.ev = "REG"    -> <<"service", "CREATE", "none">>
      [] e.ev = "CREATE" -> <<"char_uuid128", "ADD_CHAR", "char_uuid128">>
      [] e.ev = "ADD_CHAR" /\ e.uuid = "char_uuid128" ->
             <<"cccd", "ADD_CHAR_DESCR", "none">>
      [] e.ev = "ADD_CHAR_DESCR" ->
             <<"version_char_uuid128", "ADD_CHAR", "version_char_uuid128">>
      [] e.ev = "ADD_CHAR" /\ e.uuid = "version_char_uuid128" ->
             <<"ota_char_uuid128", "ADD_CHAR", "ota_char_uuid128">>
      [] OTHER -> <<>>

\* main.c:375-460  one bring-up confirmation is delivered to
\* gatts_event_handler; again: the stack will deliver the same event once more.
\* st is the status the stack will report for the request made here.
GattsBringUp(e, again, st) ==
    /\ Running /\ ble_enabled
    /\ e \in evq
    /\ e.ev \in {"REG", "CREATE", "ADD_CHAR", "ADD_CHAR_DESCR"}
    /\ again => dups < MaxDupEvents
    /\ dups' = IF again THEN dups + 1 ELSE dups
    /\ LET r    == NextRequest(e)
           rest == IF again THEN evq ELSE evq \ {e}
           gap  == IF e.ev = "REG"          \* main.c:378-379
                   THEN {Confirmation("ADV_DATA_SET", "none", "ok"),
                         Confirmation("SCAN_RSP_DATA_SET", "none", "ok")}
                   ELSE {}
       IN IF r = <<>>
          THEN /\ evq' = rest
               /\ UNCHANGED reqs
          ELSE /\ evq' = rest \cup gap \cup {Confirmation(r[2], r[3], st)}
               /\ reqs' = Append(reqs, r[1])
    \* main.c:416, 428, 442: the handle of the confirmation is stored
    /\ stored' = IF e.ev = "ADD_CHAR" THEN stored \cup {e.uuid} ELSE stored
    /\ UNCHANGED <<adv_config_done, scan_rsp_config_done>>
    /\ UNCHANGED <<bleVars, sessVars>>
    /\ UNCHANGED <<mainVars, otaVars, upVars, hVars, restarted>>
    /\ UNCHANGED <<usbVars, lineVars>>

\* main.c:347-358  gap_event_handler: advertising data or scan response set
GapConfigDone(e) ==
    /\ Running /\ ble_enabled
    /\ e \in evq
    /\ e.ev \in {"ADV_DATA_SET", "SCAN_RSP_DATA_SET"}
    /\ evq' = evq \ {e}
    /\ IF e.ev = "ADV_DATA_SET"
       THEN /\ adv_config_done' = TRUE
            /\ advertising' = (advertising \/ scan_rsp_config_done)
            /\ UNCHANGED scan_rsp_config_done
       ELSE /\ scan_rsp_config_done' = TRUE
            /\ advertising' = (advertising \/ adv_config_done)
            /\ UNCHANGED adv_config_done
    /\ UNCHANGED <<reqs, dups, stored>>
    /\ UNCHANGED <<ota_mode_requested, ble_enabled, device_connected, cmds,
                   late_cmd>>
    /\ UNCHANGED sessVars
    /\ UNCHANGED <<mainVars, otaVars, upVars, hVars, restarted>>
    /\ UNCHANGED <<usbVars, lineVars>>

BringUp ==
    \/ \E e \in evq, again \in BOOLEAN, st \in {"ok", "error"} :
          GattsBringUp(e, again, st)
    \/ \E e \in evq : GapConfigDone(e)

----------------------------------------------------------------------------
(* gatts_event_handler: runtime events, main.c:462-533 *)

\* main.c:462-476  ESP_GATTS_CONNECT_EVT
GattsConnect ==
    /\ Running /\ ble_enabled /\ ~device_connected /\ advertising
    /\ device_connected' = TRUE
    /\ advertising' = FALSE
    /\ subscribed' = FALSE
    /\ gatt_evt' = NoEvent
    /\ rsp_log' = <<>>
    /\ UNCHANGED <<ota_mode_requested, ble_enabled, cmds, late_cmd>>
    /\ UNCHANGED <<mainVars, otaVars, upVars, hVars, restarted>>
    /\ UNCHANGED <<usbVars, lineVars, bringVars>>

\* main.c:504-508  ESP_GATTS_DISCONNECT_EVT
GattsDisconnect ==
    /\ Running /\ ble_enabled /\ device_connected
    /\ device_connected' = FALSE
    /\ advertising' = TRUE
    /\ subscribed' = FALSE
    /\ gatt_evt' = NoEvent
    /\ rsp_log' = <<>>
    /\ UNCHANGED <<ota_mode_requested, ble_enabled, cmds, late_cmd>>
    /\ UNCHANGED <<mainVars, otaVars, upVars, hVars, restarted>>
    /\ UNCHANGED <<usbVars, lineVars, bringVars>>

\* The command test without the comparison of the handle (main.c:486).
IsEnterCommand_AnyHandle(handle, value) ==
    /\ Len(value) >= 1
    /\ value[1] = OTA_CMD_ENTER

\* The command test of ESP_GATTS_WRITE_EVT.
IsEnterCommand(handle, value) ==
    /\ handle = ota_char_handle
    /\ Len(value) >= 1
    /\ value[1] = OTA_CMD_ENTER

\* A write of the notification descriptor that sets its notification bit.
EnablesNotify(value) == Len(value) >= 2 /\ value[1] = 1

\* main.c:498-501, 530-531  esp_ble_gatts_send_response
Response(status, payload) == [status |-> status, payload |-> payload]

\* main.c:482-502  ESP_GATTS_WRITE_EVT
GattsWrite(handle, value, need_rsp) ==
    /\ Running /\ ble_enabled /\ device_connected
    /\ IF IsEnterCommand(handle, value)
       THEN /\ cmds < MaxCmds
            /\ ota_mode_requested' = TRUE
            /\ cmds' = cmds + 1
            /\ late_cmd' = (late_cmd \/ mpc \in {"stop_adv", "teardown"})
       ELSE UNCHANGED <<ota_mode_requested, cmds, late_cmd>>
    /\ subscribed' = IF handle = cccd_handle THEN EnablesNotify(value)
                     ELSE subscribed
    /\ gatt_evt' = [type |-> "write", handle |-> handle, value |-> value,
                    need_rsp |-> need_rsp]
    /\ rsp_log' = IF need_rsp THEN <<Response(ESP_GATT_OK, <<>>)>> ELSE <<>>
    /\ UNCHANGED <<ble_enabled, advertising, device_connected>>
    /\ UNCHANGED <<mainVars, otaVars, upVars, hVars, restarted>>
    /\ UNCHANGED <<usbVars, lineVars, bringVars>>

\* main.c:516-528  the payload of a read response, by handle; reading is what
\* the handler finds in last_reading
ReadPayload(handle, reading) ==
    IF handle = version_char_handle THEN FIRMWARE_VERSION
    ELSE IF handle = char_handle THEN reading
    ELSE <<>>

\* main.c:510-533  ESP_GATTS_READ_EVT, no handle_rx running at the same time
GattsRead(handle) ==
    /\ Running /\ ble_enabled /\ device_connected
    /\ gatt_evt' = [type |-> "read", handle |-> handle, value |-> <<>>,
                    need_rsp |-> TRUE]
    /\ rsp_log' = <<Response(ESP_GATT_OK, ReadPayload(handle, last_reading))>>
    /\ UNCHANGED subscribed
    /\ UNCHANGED bleVars
    /\ UNCHANGED <<mainVars, otaVars, upVars, hVars, restarted>>
    /\ UNCHANGED <<usbVars, lineVars, bringVars>>

----------------------------------------------------------------------------
(* app_main: the main loop *)

\* main.c:593  if (ota_mode_requested)
MPoll ==
    /\ Running /\ mpc = "poll"
    /\ mpc' = IF ota_mode_requested THEN "clear" ELSE "poll"
    /\ UNCHANGED <<ota_elapsed, teardowns, starts>>
    /\ UNCHANGED <<bleVars, otaVars, upVars, hVars, restarted>>
    /\ UNCHANGED <<usbVars, lineVars, gattVars>>

\* Variant of MClear: the flag is left set when update mode is entered.
MClear_FlagKept ==
    /\ Running /\ mpc = "clear"
    /\ mpc' = "stop_adv"
    /\ UNCHANGED <<ota_mode_requested, ble_enabled, advertising,
                   device_connected, cmds, late_cmd>>
    /\ UNCHANGED <<ota_elapsed, teardowns, starts>>
    /\ UNCHANGED <<otaVars, upVars, hVars, restarted>>
    /\ UNCHANGED <<usbVars, lineVars, gattVars>>

\* main.c:595  ota_mode_requested = false
MClear ==
    /\ Running /\ mpc = "clear"
    /\ ota_mode_requested' = FALSE
    /\ mpc' = "stop_adv"
    /\ UNCHANGED <<ble_enabled, advertising, device_connected, cmds, late_cmd>>
    /\ UNCHANGED <<ota_elapsed, teardowns, starts>>
    /\ UNCHANGED <<otaVars, upVars, hVars, restarted>>
    /\ UNCHANGED <<usbVars, lineVars, gattVars>>

\* main.c:600  esp_ble_gap_stop_advertising
MStopAdv ==
    /\ Running /\ mpc = "stop_adv"
    /\ advertising' = FALSE
    /\ mpc' = "teardown"
    /\ UNCHANGED <<ota_mode_requested, ble_enabled, device_connected, cmds,
                   late_cmd>>
    /\ UNCHANGED <<ota_elapsed, teardowns, starts>>
    /\ UNCHANGED <<otaVars, upVars, hVars, restarted>>
    /\ UNCHANGED <<usbVars, lineVars, gattVars>>

\* main.c:601-604  disable and deinit bluedroid and the controller: the radio
\* is off, the session with the client and its pending events are gone
MTeardown ==
    /\ Running /\ mpc = "teardown"
    /\ advertising' = FALSE
    /\ ble_enabled' = FALSE
    /\ teardowns' = teardowns + 1
    /\ mpc' = "start"
    /\ subscribed' = FALSE
    /\ gatt_evt' = NoEvent
    /\ rsp_log' = <<>>
    /\ UNCHANGED <<ota_mode_requested, device_connected, cmds, late_cmd>>
    /\ UNCHANGED <<ota_elapsed, starts>>
    /\ UNCHANGED <<otaVars, upVars, hVars, restarted>>
    /\ UNCHANGED <<usbVars, lineVars, bringVars>>

\* main.c:609 -> ota_update.c:394-399, start_wifi_ap line 299
MStartWifi ==
    /\ Running /\ mpc = "start"
    /\ current_state' = "WIFI_STARTING"
    /\ starts' = starts + 1
    /\ mpc' = "wifi_init"
    /\ UNCHANGED <<ota_elapsed, teardowns>>
    /\ UNCHANGED <<update_progress, last_error, http_server>>
    /\ UNCHANGED <<bleVars, upVars, hVars, restarted>>
    /\ UNCHANGED <<usbVars, lineVars, gattVars>>

\* start_wifi_ap, ota_update.c:302-375
MWifiInit(outcome) ==
    /\ Running /\ mpc = "wifi_init"
    /\ CASE outcome = "netif_fail" ->
              /\ mpc' = "start_failed"
              /\ UNCHANGED <<current_state, last_error>>
         [] outcome = "wifi_init_fail" ->
              /\ last_error' = OTA_ERR_WIFI_INIT
              /\ current_state' = "FAILED"
              /\ mpc' = "start_failed"
         [] outcome = "wifi_start_fail" ->
              /\ last_error' = OTA_ERR_WIFI_START
              /\ current_state' = "FAILED"
              /\ mpc' = "start_failed"
         [] outcome = "ok" ->
              /\ current_state' = "WIFI_READY"
              /\ mpc' = "http_start"
              /\ UNCHANGED last_error
    /\ UNCHANGED <<ota_elapsed, teardowns, starts>>
    /\ UNCHANGED <<update_progress, http_server>>
    /\ UNCHANGED <<bleVars, upVars, hVars, restarted>>
    /\ UNCHANGED <<usbVars, lineVars, gattVars>>

\* ota_start_update_mode, ota_update.c:403-413 (start_http_server)
MHttpStart(ok) ==
    /\ Running /\ mpc = "http_start"
    /\ IF ok
       THEN /\ http_server' = TRUE
            /\ mpc' = "wait_init"
            /\ UNCHANGED <<current_state, last_error>>
       ELSE /\ last_error' = OTA_ERR_HTTP_INIT
            /\ current_state' = "FAILED"
            /\ mpc' = "start_failed"
            /\ UNCHANGED http_server
    /\ UNCHANGED <<ota_elapsed, teardowns, starts>>
    /\ UNCHANGED update_progress
    /\ UNCHANGED <<bleVars, upVars, hVars, restarted>>
    /\ UNCHANGED <<usbVars, lineVars, gattVars>>

\* main.c:610-616  ota_start_update_mode failed: restart
MStartFailed ==
    /\ Running /\ mpc = "start_failed"
    /\ EspRestart("main")

\* main.c:622  ota_start_time = xTaskGetTickCount()
MWaitInit ==
    /\ Running /\ mpc = "wait_init"
    /\ ota_elapsed' = 0
    /\ mpc' = "wait1"
    /\ UNCHANGED <<teardowns, starts>>
    /\ UNCHANGED <<bleVars, otaVars, upVars, hVars, restarted>>
    /\ UNCHANGED <<usbVars, lineVars, gattVars>>

\* main.c:625  ota_get_state() != OTA_STATE_SUCCESS
MWait1 ==
    /\ Running /\ mpc = "wait1"
    /\ mpc' = IF current_state # "SUCCESS" THEN "wait2" ELSE "post"
    /\ ota_elapsed' = IF mpc' = "wait2" THEN ota_elapsed ELSE 0
    /\ UNCHANGED <<teardowns, starts>>
    /\ UNCHANGED <<bleVars, otaVars, upVars, hVars, restarted>>
    /\ UNCHANGED <<usbVars, lineVars, gattVars>>

\* main.c:628  the ceiling test of the wait loop
TimedOut == ota_elapsed > OTA_TIMEOUT_MIN

\* main.c:626-635  ota_get_state() != OTA_STATE_FAILED, timeout test, delay
MWait2 ==
    /\ Running /\ mpc = "wait2"
    /\ mpc' = IF current_state # "FAILED"
              THEN (IF TimedOut THEN "stop" ELSE "wait1")
              ELSE "post"
    /\ ota_elapsed' = IF mpc' = "wait1" THEN ota_elapsed ELSE 0
    /\ UNCHANGED <<teardowns, starts>>
    /\ UNCHANGED <<bleVars, otaVars, upVars, hVars, restarted>>
    /\ UNCHANGED <<usbVars, lineVars, gattVars>>

\* main.c:630 -> ota_stop_update_mode, ota_update.c:416-422
MStop ==
    /\ Running /\ mpc = "stop"
    /\ http_server' = FALSE
    /\ current_state' = "IDLE"
    /\ update_progress' = -1
    /\ mpc' = "timeout_restart"
    /\ UNCHANGED last_error
    /\ UNCHANGED <<ota_elapsed, teardowns, starts>>
    /\ UNCHANGED <<bleVars, upVars, hVars, restarted>>
    /\ UNCHANGED <<usbVars, lineVars, gattVars>>

\* main.c:631-633  restart after the ceiling
MTimeoutRestart ==
    /\ Running /\ mpc = "timeout_restart"
    /\ EspRestart("main")

\* main.c:640  if (ota_get_state() == OTA_STATE_FAILED)
MPost ==
    /\ Running /\ mpc = "post"
    /\ mpc' = IF current_state = "FAILED" THEN "failed_restart" ELSE "poll"
    /\ UNCHANGED <<ota_elapsed, teardowns, starts>>
    /\ UNCHANGED <<bleVars, otaVars, upVars, hVars, restarted>>
    /\ UNCHANGED <<usbVars, lineVars, gattVars>>

\* main.c:641-644  restart after a failed update
MFailedRestart ==
    /\ Running /\ mpc = "failed_restart"
    /\ EspRestart("main")

\* One minute passes while the main loop sits in its wait loop
\* (vTaskDelay of main.c:635).
Tick ==
    /\ Running /\ mpc \in {"wait1", "wait2"}
    /\ ~TimedOut
    /\ ota_elapsed' = ota_elapsed + 1
    /\ UNCHANGED <<mpc, teardowns, starts>>
    /\ UNCHANGED <<bleVars, otaVars, upVars, hVars, restarted>>
    /\ UNCHANGED <<usbVars, lineVars, gattVars>>

MainStep ==
    \/ MPoll \/ MClear \/ MStopAdv \/ MTeardown \/ MStartWifi
    \/ \E o \in {"netif_fail", "wifi_init_fail", "wifi_start_fail", "ok"} :
          MWifiInit(o)
    \/ \E ok \in BOOLEAN : MHttpStart(ok)
    \/ MStartFailed \/ MWaitInit \/ MWait1 \/ MWait2 \/ MStop
    \/ MTimeoutRestart \/ MPost \/ MFailedRestart

----------------------------------------------------------------------------
(* update_post_handler, ota_update.c:91-252 *)

\* Variant of HFail: the error exit leaves current_state as it is.
HFail_StateKept(err, response) ==
    /\ last_error' = err
    /\ UNCHANGED current_state
    /\ resp' = response
    /\ hpc' = "ret"

\* Every error exit: record the error, enter FAILED, answer, return ESP_FAIL.
HFail(err, response) ==
    /\ last_error' = err
    /\ current_state' = "FAILED"
    /\ resp' = response
    /\ hpc' = "ret"

\* ota_update.c:94-102  length check, then the counters are initialised
HRequest(len) ==
    /\ Running /\ http_server /\ hpc = "idle"
    /\ content_len' = len
    /\ IF len = 0
       THEN /\ resp' = "400 No firmware data"
            /\ hpc' = "ret"
            /\ UNCHANGED <<current_state, update_progress, total_size,
                           received_size, accepted, rx, fault, shorts>>
       ELSE /\ accepted < MaxUploads
            /\ current_state' = "UPDATING"
            /\ total_size' = len
            /\ received_size' = 0
            /\ update_progress' = 0
            /\ accepted' = accepted + 1
            /\ rx' = <<>>
            /\ fault' = "none"
            /\ shorts' = 0
            /\ hpc' = "acquire"
            /\ resp' = "none"
    /\ UNCHANGED <<last_error, http_server>>
    /\ UNCHANGED <<update_partition, ota_handle, written, boot_partition>>
    /\ UNCHANGED <<remaining, first_chunk, recv_len, hdr_magic>>
    /\ UNCHANGED <<bleVars, mainVars, restarted>>
    /\ UNCHANGED <<usbVars, lineVars, gattVars>>

\* ota_update.c:105-140  next partition, esp_ota_begin, malloc, loop set-up
HAcquire(outcome) ==
    /\ Running /\ hpc = "acquire"
    /\ CASE outcome = "no_partition" ->
              /\ update_partition' = "NULL"
              /\ HFail(OTA_ERR_OTA_BEGIN, "500 No OTA partition")
              /\ fault' = "partition"
              /\ UNCHANGED <<ota_handle, written, remaining, first_chunk>>
         [] outcome = "begin_fail" ->
              /\ update_partition' = NextPartition
              /\ HFail(OTA_ERR_OTA_BEGIN, "500 OTA begin failed")
              /\ fault' = "begin"
              /\ UNCHANGED <<ota_handle, written, remaining, first_chunk>>
         [] outcome = "no_mem" ->
              /\ update_partition' = NextPartition
              /\ ota_handle' = "aborted"
              /\ written' = <<>>
              /\ HFail(OTA_ERR_OTA_WRITE, "500 Memory allocation failed")
              /\ fault' = "malloc"
              /\ UNCHANGED <<remaining, first_chunk>>
         [] outcome = "ok" ->
              /\ update_partition' = NextPartition
              /\ ota_handle' = "open"
              /\ written' = <<>>
              /\ remaining' = content_len
              /\ first_chunk' = TRUE
              /\ hpc' = IF remaining' > 0 THEN "recv" ELSE "validating"
              /\ UNCHANGED <<last_error, current_state, resp, fault>>
    /\ UNCHANGED <<update_progress, http_server>>
    /\ UNCHANGED <<total_size, received_size, boot_partition>>
    /\ UNCHANGED <<content_len, recv_len, hdr_magic, accepted, rx, shorts>>
    /\ UNCHANGED <<bleVars, mainVars, restarted>>
    /\ UNCHANGED <<usbVars, lineVars, gattVars>>

\* ota_update.c:143  the length asked of httpd_req_recv
RecvWant == MIN(remaining, OTA_CHUNK_SIZE)

\* Lengths httpd_req_recv may deliver: all that was asked for, or less.
RecvLens ==
    {RecvWant} \cup {l \in ShortLens : l < RecvWant /\ shorts < MaxShortReads}

\* Variant of HRecvTimeout: the timed-out read counts as the first chunk.
HRecvTimeout_FlagCleared ==
    /\ Running /\ hpc = "recv"
    /\ recv_len' = HTTPD_SOCK_ERR_TIMEOUT
    /\ first_chunk' = FALSE
    /\ UNCHANGED <<hpc, content_len, remaining, hdr_magic,
                   resp, accepted, rx, fault, shorts>>
    /\ UNCHANGED <<bleVars, mainVars, otaVars, upVars, restarted>>
    /\ UNCHANGED <<usbVars, lineVars, gattVars>>

\* ota_update.c:146-149  read timeout: retry
HRecvTimeout ==
    /\ Running /\ hpc = "recv"
    /\ recv_len' = HTTPD_SOCK_ERR_TIMEOUT
    /\ UNCHANGED <<hpc, content_len, remaining, first_chunk, hdr_magic,
                   resp, accepted, rx, fault, shorts>>
    /\ UNCHANGED <<bleVars, mainVars, otaVars, upVars, restarted>>
    /\ UNCHANGED <<usbVars, lineVars, gattVars>>

\* ota_update.c:145,150-156  any other read error (or the peer closing)
HRecvError(r) ==
    /\ Running /\ hpc = "recv"
    /\ recv_len' = r
    /\ ota_handle' = "aborted"
    /\ HFail(OTA_ERR_OTA_WRITE, "500 Receive error")
    /\ fault' = "recv"
    /\ UNCHANGED <<update_progress, http_server>>
    /\ UNCHANGED <<total_size, received_size, update_partition, written,
                   boot_partition>>
    /\ UNCHANGED <<content_len, remaining, first_chunk, hdr_magic, accepted,
                   rx, shorts>>
    /\ UNCHANGED <<bleVars, mainVars, restarted>>
    /\ UNCHANGED <<usbVars, lineVars, gattVars>>

\* ota_update.c:162  recv_len < sizeof(esp_image_header_t)
HeaderTooSmall(len) == len < IMAGE_HEADER_SIZE

\* Variant of BadMagic: the magic byte is not compared.
BadMagic_Unchecked(magic) == FALSE

\* ota_update.c:173  header->magic != ESP_IMAGE_HEADER_MAGIC
BadMagic(magic) == magic # ESP_IMAGE_HEADER_MAGIC

\* ota_update.c:200  received_size * 100 in size_t, which has 32 bits: the
\* product modulo 2^32, as <<upper 16 bits, lower 16 bits>>; r < 2^31.
Times100(r) ==
    LET low  == (r % 65536) * 100
        high == (r \div 65536) * 100 + low \div 65536
    IN <<high % 65536, low % 65536>>

\* ota_update.c:200  the unsigned 32-bit value v = <<upper, lower>> divided by
\* t, 0 < t < 2^31.  A value of 2^31 or more is split into 2^31 - 1, 1 and
\* the rest.
DivU32(v, t) ==
    IF v[1] < 32768
    THEN (v[1] * 65536 + v[2]) \div t
    ELSE LET rest == (v[1] - 32768) * 65536 + v[2]
             q1 == 2147483647 \div t
             r1 == 2147483647 % t
             q2 == rest \div t
             r2 == rest % t
         IN q1 + q2 + (IF r1 + 1 >= t - r2 THEN 1 ELSE 0)

\* ota_update.c:200  (received_size * 100) / total_size, size_t arithmetic
Progress(received, total) == DivU32(Times100(received), total)

\* ota_update.c:143-205  one turn of the receive loop that got len bytes whose
\* first byte is byte0; write_ok is the result of esp_ota_write.
HRecvChunk(len, byte0, write_ok) ==
    /\ Running /\ hpc = "recv"
    /\ len \in RecvLens
    /\ recv_len' = len
    /\ rx' = Append(rx, len)
    /\ shorts' = IF len < RecvWant THEN shorts + 1 ELSE shorts
    /\ first_chunk' = FALSE
    /\ hdr_magic' = IF first_chunk /\ ~HeaderTooSmall(len) THEN byte0
                    ELSE hdr_magic
    /\ IF first_chunk /\ HeaderTooSmall(len)
       THEN /\ ota_handle' = "aborted"
            /\ HFail(OTA_ERR_VALIDATION, "400 Invalid firmware")
            /\ UNCHANGED <<written, received_size, remaining,
                           update_progress, fault>>
       ELSE IF first_chunk /\ BadMagic(byte0)
       THEN /\ ota_handle' = "aborted"
            /\ HFail(OTA_ERR_VALIDATION, "400 Invalid firmware header")
            /\ UNCHANGED <<written, received_size, remaining,
                           update_progress, fault>>
       ELSE IF ~write_ok
       THEN /\ ota_handle' = "aborted"
            /\ HFail(OTA_ERR_OTA_WRITE, "500 Write error")
            /\ fault' = "write"
            /\ UNCHANGED <<written, received_size, remaining,
                           update_progress>>
       ELSE /\ written' = Append(written, len)
            /\ received_size' = received_size + len
            /\ remaining' = remaining - len
            /\ update_progress' = Progress(received_size', total_size)
            /\ hpc' = IF remaining' > 0 THEN "recv" ELSE "validating"
            /\ UNCHANGED <<ota_handle, last_error, current_state, resp, fault>>
    /\ UNCHANGED http_server
    /\ UNCHANGED <<total_size, update_partition, boot_partition>>
    /\ UNCHANGED <<content_len, accepted>>
    /\ UNCHANGED <<bleVars, mainVars, restarted>>
    /\ UNCHANGED <<usbVars, lineVars, gattVars>>

\* ota_update.c:208-211  current_state = OTA_STATE_VALIDATING
HValidating ==
    /\ Running /\ hpc = "validating"
    /\ current_state' = "VALIDATING"
    /\ hpc' = "finalize"
    /\ UNCHANGED <<update_progress, last_error, http_server>>
    /\ UNCHANGED <<content_len, remaining, first_chunk, recv_len, hdr_magic,
                   resp, accepted, rx, fault, shorts>>
    /\ UNCHANGED <<bleVars, mainVars, upVars, restarted>>
    /\ UNCHANGED <<usbVars, lineVars, gattVars>>

\* esp_ota_end accepts only a handle that data was written to and whose image
\* starts with a valid header; it may still reject the image.
ImageMayVerify == written # <<>> /\ hdr_magic = ESP_IMAGE_HEADER_MAGIC

\* Variant of HFinalize: the result of esp_ota_end is not looked at.
HFinalize_ResultIgnored(result) ==
    /\ Running /\ hpc = "finalize"
    /\ result = "ok" => ImageMayVerify
    /\ ota_handle' = IF result = "ok" THEN "ended" ELSE "end_failed"
    /\ fault' = IF result = "ok" THEN fault ELSE "end"
    /\ hpc' = "set_boot"
    /\ UNCHANGED <<last_error, current_state, resp>>
    /\ UNCHANGED <<update_progress, http_server>>
    /\ UNCHANGED <<total_size, received_size, update_partition, written,
                   boot_partition>>
    /\ UNCHANGED <<content_len, remaining, first_chunk, recv_len, hdr_magic,
                   accepted, rx, shorts>>
    /\ UNCHANGED <<bleVars, mainVars, restarted>>
    /\ UNCHANGED <<usbVars, lineVars, gattVars>>

\* ota_update.c:214-226  esp_ota_end
HFinalize(result) ==
    /\ Running /\ hpc = "finalize"
    /\ CASE result = "ok" ->
              /\ ImageMayVerify
              /\ ota_handle' = "ended"
              /\ hpc' = "set_boot"
              /\ UNCHANGED <<last_error, current_state, resp, fault>>
         [] result = "validate_failed" ->
              /\ ota_handle' = "end_failed"
              /\ HFail(OTA_ERR_OTA_END, "400 Firmware validation failed")
              /\ fault' = "end"
         [] result = "fail" ->
              /\ ota_handle' = "end_failed"
              /\ HFail(OTA_ERR_OTA_END, "500 OTA finalize failed")
              /\ fault' = "end"
    /\ UNCHANGED <<update_progress, http_server>>
    /\ UNCHANGED <<total_size, received_size, update_partition, written,
                   boot_partition>>
    /\ UNCHANGED <<content_len, remaining, first_chunk, recv_len, hdr_magic,
                   accepted, rx, shorts>>
    /\ UNCHANGED <<bleVars, mainVars, restarted>>
    /\ UNCHANGED <<usbVars, lineVars, gattVars>>

\* Variant of HSetBoot: SUCCESS is reported without the boot partition set.
HSetBoot_NoCommit(ok) ==
    /\ Running /\ hpc = "set_boot"
    /\ current_state' = "SUCCESS"
    /\ update_progress' = 100
    /\ resp' = "200 success"
    /\ hpc' = "reboot"
    /\ UNCHANGED <<last_error, fault, boot_partition>>
    /\ UNCHANGED http_server
    /\ UNCHANGED <<total_size, received_size, update_partition, ota_handle,
                   written>>
    /\ UNCHANGED <<content_len, remaining, first_chunk, recv_len, hdr_magic,
                   accepted, rx, shorts>>
    /\ UNCHANGED <<bleVars, mainVars, restarted>>
    /\ UNCHANGED <<usbVars, lineVars, gattVars>>

\* ota_update.c:229-245  esp_ota_set_boot_partition, then SUCCESS and the reply
HSetBoot(ok) ==
    /\ Running /\ hpc = "set_boot"
    /\ IF ok
       THEN /\ boot_partition' = update_partition
            /\ current_state' = "SUCCESS"
            /\ update_progress' = 100
            /\ resp' = "200 success"
            /\ hpc' = "reboot"
            /\ UNCHANGED <<last_error, fault>>
       ELSE /\ HFail(OTA_ERR_SET_BOOT, "500 Set boot partition failed")
            /\ fault' = "set_boot"
            /\ UNCHANGED <<boot_partition, update_progress>>
    /\ UNCHANGED http_server
    /\ UNCHANGED <<total_size, received_size, update_partition, ota_handle,
                   written>>
    /\ UNCHANGED <<content_len, remaining, first_chunk, recv_len, hdr_magic,
                   accepted, rx, shorts>>
    /\ UNCHANGED <<bleVars, mainVars, restarted>>
    /\ UNCHANGED <<usbVars, lineVars, gattVars>>

\* ota_update.c:248-249  vTaskDelay(2000); esp_restart()
HReboot ==
    /\ Running /\ hpc = "reboot"
    /\ EspRestart("handler")

\* return ESP_FAIL: the request is over, its reply has gone out, its locals are
\* gone and the server task is free for the next request
HReturn ==
    /\ Running /\ hpc = "ret"
    /\ hpc' = "idle"
    /\ content_len' = 0
    /\ remaining' = 0
    /\ first_chunk' = FALSE
    /\ recv_len' = 0
    /\ hdr_magic' = 0
    /\ rx' = <<>>
    /\ fault' = "none"
    /\ shorts' = 0
    /\ resp' = "none"
    /\ UNCHANGED accepted
    /\ UNCHANGED <<bleVars, mainVars, otaVars, upVars, restarted>>
    /\ UNCHANGED <<usbVars, lineVars, gattVars>>

\* Steps of the handler that wait for nothing but the scheduler.
HLocal ==
    \/ \E o \in {"no_partition", "begin_fail", "no_mem", "ok"} : HAcquire(o)
    \/ HValidating
    \/ \E r \in {"ok", "validate_failed", "fail"} : HFinalize(r)
    \/ \E ok \in BOOLEAN : HSetBoot(ok)
    \/ HReboot
    \/ HReturn

\* Steps of the handler decided by the uploader and the network.
HNet ==
    \/ \E len \in ContentLens : HRequest(len)
    \/ HRecvTimeout
    \/ \E r \in {HTTPD_SOCK_ERR_FAIL, 0} : HRecvError(r)
    \/ \E len \in RecvLens, b \in FirstBytes, w \in BOOLEAN :
          HRecvChunk(len, b, w)

Gatts ==
    \/ GattsConnect
    \/ GattsDisconnect
    \/ \E h \in WriteHandles, v \in WriteValues, n \in BOOLEAN :
          GattsWrite(h, v, n)

Next == MainStep \/ Tick \/ Gatts \/ HLocal \/ HNet

Spec == Init /\ [][Next]_vars

\* Scheduling: the main task and the server task each run again within finite
\* time, and time passes while the main loop sleeps in its wait loop.  What
\* the uploader and the client send is not constrained.
FairSpec == Spec /\ WF_vars(MainStep) /\ WF_vars(HLocal) /\ WF_vars(Tick)

----------------------------------------------------------------------------
(* Properties of update mode *)

\* C1: once the main loop has entered update mode (ota_start_update_mode was
\* called), every fairly scheduled execution eventually restarts the device.
C1_EventualRestart == (starts >= 1) ~> (restarted # "none")

\* The first chunk of the upload has just been read and fails the header
\* check: it is shorter than the image header, or its magic byte is wrong.
C2_BadFirstChunk ==
    /\ hpc = "recv" /\ first_chunk /\ rx' # rx
    /\ \/ recv_len' < IMAGE_HEADER_SIZE
       \/ hdr_magic' # ESP_IMAGE_HEADER_MAGIC

\* C2: an upload whose first received chunk is shorter than the image header
\* or has a wrong magic byte ends FAILED with OTA_ERR_VALIDATION, its session
\* aborted, and nothing of it written to the partition.
C2_BadHeaderFailsUnwritten ==
    [][C2_BadFirstChunk =>
          /\ current_state' = "FAILED"
          /\ last_error' = OTA_ERR_VALIDATION
          /\ written' = <<>>
          /\ ota_handle' = "aborted"
          /\ hpc' = "ret"]_vars

C2_Witness ==
    /\ hpc = "ret" /\ rx = <<OTA_CHUNK_SIZE>>
    /\ hdr_magic # ESP_IMAGE_HEADER_MAGIC
    /\ current_state = "FAILED" /\ last_error = OTA_ERR_VALIDATION
    /\ written = <<>>

\* C3: the boot partition changes only in a step of an upload whose declared
\* bytes were all written and whose esp_ota_end returned success, and it
\* changes to the partition that upload wrote.
C3_BootOnlyAfterFinalize ==
    [][boot_partition' # boot_partition =>
          /\ ota_handle = "ended"
          /\ fault = "none"
          /\ received_size = total_size
          /\ SumSeq(written) = total_size
          /\ written = rx
          /\ boot_partition' = update_partition]_vars

C3_Witness ==
    /\ boot_partition = NextPartition
    /\ ota_handle = "ended"
    /\ hpc = "reboot"

\* The steps of an upload that has a non-zero length, a first chunk holding a
\* whole header with the right magic, and no failing platform call.
C4_HappyStep ==
    \* it starts by entering UPDATING
    /\ (hpc = "idle" /\ hpc' = "acquire") => current_state' = "UPDATING"
    \* it does not end in an error exit
    /\ (hpc' = "ret" /\ hpc \notin {"ret", "idle"}) =>
          \/ fault' # "none"
          \/ C2_BadFirstChunk
    \* every chunk received is written, in arrival order
    /\ (hpc = "recv" /\ rx' # rx /\ hpc' \in {"recv", "validating"}) =>
          /\ written' = Append(written, recv_len')
          /\ written' = rx'
          /\ recv_len' <= OTA_CHUNK_SIZE
    \* after its chunks VALIDATING is entered, with all declared bytes written
    /\ (hpc = "validating" /\ hpc' = "finalize" /\ rx # <<>>) =>
          /\ current_state' = "VALIDATING"
          /\ written = rx /\ SumSeq(written) = total_size
    /\ hpc' = "finalize" => hpc \in {"validating", "finalize"}
    /\ hpc' = "set_boot" => hpc \in {"finalize", "set_boot"}
    \* SUCCESS comes with the written partition made the boot partition
    /\ hpc' = "reboot" =>
          /\ hpc \in {"set_boot", "reboot"}
          /\ boot_partition' = NextPartition
          /\ update_partition' = NextPartition
          /\ SumSeq(written') = total_size'
    /\ (hpc = "set_boot" /\ hpc' = "reboot") =>
          /\ current_state' = "SUCCESS"
          /\ resp' = "200 success"

\* C4: an upload of non-zero length whose first chunk holds a header with the
\* right magic, received in chunks of at most OTA_CHUNK_SIZE bytes with every
\* write, esp_ota_end and the boot partition commit succeeding, goes UPDATING,
\* VALIDATING, SUCCESS, writes every chunk in arrival order, makes the written
\* partition the boot partition, and then the device restarts.
C4_HappyPath ==
    /\ [][C4_HappyStep]_vars
    /\ (hpc = "reboot") ~> (restarted # "none")

C4_Witness ==
    /\ restarted = "handler"
    /\ written = <<OTA_CHUNK_SIZE, OTA_CHUNK_SIZE>>
    /\ boot_partition = NextPartition

\* C5: when the update-mode command is received twice (or more) before the
\* main loop consumes the first, the radio teardown and ota_start_update_mode
\* each run once.
C5_TwoCommandsOneSwitch ==
    (cmds >= 2 /\ ~late_cmd) =>
        /\ teardowns <= 1
        /\ starts <= 1
        /\ mpc \notin {"poll", "clear", "stop_adv", "teardown", "start"} =>
              (teardowns = 1 /\ starts = 1)

C5_Witness ==
    /\ cmds >= 2 /\ ~late_cmd
    /\ teardowns = 1 /\ starts = 1
    /\ restarted # "none"

\* C6: a command that arrives after the main loop cleared the flag never makes
\* the entry sequence (radio teardown, ota_start_update_mode) run a second
\* time before the device restarts.
C6_NoSecondEntry == teardowns <= 1 /\ starts <= 1

\* C7: when no upload has started and the ceiling has elapsed, the main loop
\* leaves the module FAILED with OTA_ERR_TIMEOUT before it restarts the device.
C7_TimeoutRecorded ==
    (mpc = "timeout_restart" /\ accepted = 0) =>
        (current_state = "FAILED" /\ last_error = OTA_ERR_TIMEOUT)

\* C8: within one activation, once one upload request has passed the length
\* check no later request passes it, begins a session or changes the state.
C8_OneUploadPerActivation ==
    [][(accepted >= 1 /\ starts <= 1 /\ hpc = "idle" /\ hpc' # "halt") =>
          /\ accepted' = accepted
          /\ current_state' = current_state
          /\ hpc' \in {"idle", "ret"}]_vars

\* C9: a request whose declared content length is zero is rejected with the
\* state FAILED and the error OTA_ERR_VALIDATION, no partition acquired and no
\* session begun.
C9_ZeroLengthFails ==
    [][(hpc = "idle" /\ hpc' = "ret") =>
          /\ current_state' = "FAILED"
          /\ last_error' = OTA_ERR_VALIDATION
          /\ UNCHANGED <<update_partition, ota_handle, written>>]_vars

----------------------------------------------------------------------------
(* main.c: the line framer, handle_rx lines 154-183 *)

IsTerminator(c) == c = 10 \/ c = 13
IsPrintable(c)  == c >= 32 /\ c < 127

\* main.c:166  the test that guards esp_ble_gatts_send_indicate
MayNotify == device_connected /\ gatts_if # ESP_GATT_IF_NONE /\ char_handle # 0

\* The framer with the test of main.c:175 left out: every byte that is not a
\* terminator is buffered.
FrameByte_NoFilter(st, c) ==
    IF IsTerminator(c)
    THEN IF Len(st.buf) > 0
         THEN [buf  |-> <<>>,
               last |-> SubSeq(st.buf, 1, MIN(Len(st.buf), LINE_BUFFER_SIZE - 1)),
               out  |-> Append(st.out, st.buf)]
         ELSE st
    ELSE IF Len(st.buf) < LINE_BUFFER_SIZE - 1
    THEN [st EXCEPT !.buf = Append(st.buf, c)]
    ELSE st

\* The framer with the test of main.c:176 left out: a printable byte is
\* buffered whatever the length of the buffer.
FrameByte_Unbounded(st, c) ==
    IF IsTerminator(c)
    THEN IF Len(st.buf) > 0
         THEN [buf  |-> <<>>,
               last |-> SubSeq(st.buf, 1, MIN(Len(st.buf), LINE_BUFFER_SIZE - 1)),
               out  |-> Append(st.out, st.buf)]
         ELSE st
    ELSE IF IsPrintable(c)
    THEN [st EXCEPT !.buf = Append(st.buf, c)]
    ELSE st

\* One byte through the framer; st = [buf, last, out].
FrameByte(st, c) ==
    IF IsTerminator(c)
    THEN IF Len(st.buf) > 0
         THEN [buf  |-> <<>>,
               last |-> SubSeq(st.buf, 1, MIN(Len(st.buf), LINE_BUFFER_SIZE - 1)),
               out  |-> Append(st.out, st.buf)]
         ELSE st
    ELSE IF IsPrintable(c)
    THEN IF Len(st.buf) < LINE_BUFFER_SIZE - 1
         THEN [st EXCEPT !.buf = Append(st.buf, c)]
         ELSE st
    ELSE st

\* main.c:154  the loop over the bytes of a block, first to last.  The block
\* is halved, and the state after the first half is computed (the test on
\* mid) before the second half is entered, to keep the evaluation shallow.
RECURSIVE FrameBytes(_, _)
FrameBytes(st, data) ==
    IF data = <<>> THEN st
    ELSE IF Len(data) = 1 THEN FrameByte(st, data[1])
    ELSE LET half == Len(data) \div 2
             mid  == FrameBytes(st, SubSeq(data, 1, half))
             rest == SubSeq(data, half + 1, Len(data))
         IN IF mid.buf = <<>>
            THEN FrameBytes(mid, rest)
            ELSE FrameBytes(mid, rest)

----------------------------------------------------------------------------
(* main.c: USB callbacks *)

\* The serial device is plugged in: the driver calls new_device_cb.
CbEnter(id) ==
    /\ ~attached /\ cbpc = "idle"
    /\ attached' = TRUE
    /\ detected_vid' = id[1]          \* main.c:210
    /\ cbpc' = "pid"
    /\ UNCHANGED <<upc, device_available, detected_pid, vid, pid, cdc_open, cdc_dev_present,
                   device_disconnected_sem, clk, last_data_time_ms, now_ms,
                   take_start, wd_closes>>
    /\ UNCHANGED <<bleVars, mainVars, otaVars, upVars, hVars, restarted,
                   lineVars, gattVars>>

\* main.c:211
CbPid(id) ==
    /\ cbpc = "pid" /\ id[1] = detected_vid
    /\ detected_pid' = id[2]
    /\ cbpc' = "avail"
    /\ UNCHANGED <<upc, device_available, detected_vid, vid, pid, cdc_open, cdc_dev_present,
                   attached, device_disconnected_sem, clk, last_data_time_ms,
                   now_ms, take_start, wd_closes>>
    /\ UNCHANGED <<bleVars, mainVars, otaVars, upVars, hVars, restarted,
                   lineVars, gattVars>>

\* main.c:212
CbAvail ==
    /\ cbpc = "avail"
    /\ device_available' = TRUE
    /\ cbpc' = "idle"
    /\ UNCHANGED <<upc, detected_vid, detected_pid, vid, pid, cdc_open, cdc_dev_present,
                   attached, device_disconnected_sem, clk, last_data_time_ms,
                   now_ms, take_start, wd_closes>>
    /\ UNCHANGED <<bleVars, mainVars, otaVars, upVars, hVars, restarted,
                   lineVars, gattVars>>

\* Variant of RxLines: each call of handle_rx starts with an empty line buffer.
RxLines_FreshBuffer(data) ==
    LET r == FrameBytes([buf |-> <<>>, last |-> last_reading,
                         out |-> <<>>], data)
    IN /\ line_buffer' = r.buf
       /\ last_reading' = r.last
       /\ sent' = IF MayNotify THEN sent \o r.out ELSE sent

\* main.c:154-183  what a call of handle_rx with data does to the framer's
\* buffers and to the client
RxLines(data) ==
    LET r == FrameBytes([buf |-> line_buffer, last |-> last_reading,
                         out |-> <<>>], data)
    IN /\ line_buffer' = r.buf
       /\ last_reading' = r.last
       /\ sent' = IF MayNotify THEN sent \o r.out ELSE sent

\* main.c:157-173  the line events of one call of handle_rx: the lines it
\* terminated, in order
LineEvents(data) ==
    FrameBytes([buf |-> line_buffer, last |-> last_reading, out |-> <<>>],
               data).out

\* main.c:150-185  handle_rx, called by the driver with a block of data; what
\* the GATT task does meanwhile is left open
HandleRxStep(data) ==
    /\ cdc_open /\ cdc_dev_present
    /\ rx_calls < MaxRxCalls
    /\ rx_calls' = rx_calls + 1
    /\ last_data_time_ms' = clk                       \* main.c:152
    /\ RxLines(data)
    /\ UNCHANGED <<line_events, feed, fed>>
    /\ UNCHANGED <<upc, cbpc, device_available, detected_vid, detected_pid,
                   vid, pid, cdc_open, cdc_dev_present, attached, device_disconnected_sem,
                   clk, now_ms, take_start, wd_closes>>
    /\ UNCHANGED <<bleVars, mainVars, otaVars, upVars, hVars, restarted>>
    /\ UNCHANGED bringVars

\* handle_rx runs and no request event is handled during the call
HandleRx(data) ==
    /\ HandleRxStep(data)
    /\ UNCHANGED sessVars

\* main.c:162  last_reading while strncpy(last_reading, line_buffer, 255) has
\* copied k bytes of new over old and not yet written the terminating zero
TornCopy(old, new, k) ==
    SubSeq(new, 1, k) \o
        (IF k < Len(old) THEN SubSeq(old, k + 1, Len(old)) ELSE <<>>)

\* main.c:510-533 with main.c:162: a read of the Data attribute is handled by
\* the GATT task while handle_rx, in the USB driver's task, is inside the
\* strncpy that replaces last_reading.  Nothing orders the two accesses.
GattsReadDuringRx(data, k) ==
    /\ Running /\ ble_enabled /\ device_connected
    /\ HandleRxStep(data)
    /\ LineEvents(data) # <<>>
    /\ k \in 0..Len(last_reading')
    /\ gatt_evt' = [type |-> "read", handle |-> char_handle, value |-> <<>>,
                    need_rsp |-> TRUE]
    /\ rsp_log' = <<Response(ESP_GATT_OK,
                       ReadPayload(char_handle,
                                   TornCopy(last_reading, last_reading', k)))>>
    /\ UNCHANGED subscribed

\* The serial device delivers the next n bytes of feed in one call of
\* handle_rx (main.c:150-185).
FramerFeed(n) ==
    /\ cdc_open /\ cdc_dev_present
    /\ n \in 1..Len(feed)
    /\ last_data_time_ms' = clk                       \* main.c:152
    /\ RxLines(SubSeq(feed, 1, n))
    /\ line_events' = line_events \o LineEvents(SubSeq(feed, 1, n))
    /\ feed' = SubSeq(feed, n + 1, Len(feed))
    /\ fed' = fed \o SubSeq(feed, 1, n)
    /\ rx_calls' = IF rx_calls < MaxRxCalls THEN rx_calls + 1 ELSE rx_calls
    /\ UNCHANGED <<upc, cbpc, device_available, detected_vid, detected_pid,
                   vid, pid, cdc_open, cdc_dev_present, attached, device_disconnected_sem,
                   clk, now_ms, take_start, wd_closes>>
    /\ UNCHANGED <<bleVars, mainVars, otaVars, upVars, hVars, restarted>>
    /\ UNCHANGED gattVars

\* main.c:193-196  handle_event(CDC_ACM_HOST_DEVICE_DISCONNECTED): the device
\* behind the open handle was unplugged; the driver reports it once
HandleDisconnected ==
    /\ cdc_open /\ cdc_dev_present
    /\ cdc_dev_present' = FALSE
    /\ attached' = FALSE
    /\ device_disconnected_sem' = 1
    /\ UNCHANGED <<upc, cbpc, device_available, detected_vid, detected_pid,
                   vid, pid, cdc_open, clk, last_data_time_ms, now_ms,
                   take_start, wd_closes>>
    /\ UNCHANGED <<bleVars, mainVars, otaVars, upVars, hVars, restarted,
                   lineVars, gattVars>>

\* A device that is not behind an open handle is unplugged: no event is
\* delivered.
Unplug ==
    /\ attached /\ ~cdc_dev_present /\ cbpc = "idle"
    /\ attached' = FALSE
    /\ UNCHANGED <<upc, cbpc, device_available, detected_vid, detected_pid,
                   vid, pid, cdc_open, cdc_dev_present, device_disconnected_sem, clk,
                   last_data_time_ms, now_ms, take_start, wd_closes>>
    /\ UNCHANGED <<bleVars, mainVars, otaVars, upVars, hVars, restarted,
                   lineVars, gattVars>>

----------------------------------------------------------------------------
(* main.c: usb_host_task, the loop of lines 257-338 *)

\* main.c:263  if (!device_available) { delay; continue; }
UCheck ==
    /\ upc = "wait_dev"
    /\ upc' = IF device_available THEN "read_vid" ELSE "wait_dev"
    /\ UNCHANGED <<cbpc, device_available, detected_vid, detected_pid, vid,
                   pid, cdc_open, cdc_dev_present, attached, device_disconnected_sem, clk,
                   last_data_time_ms, now_ms, take_start, wd_closes>>
    /\ UNCHANGED <<bleVars, mainVars, otaVars, upVars, hVars, restarted,
                   lineVars, gattVars>>

\* main.c:269
UReadVid ==
    /\ upc = "read_vid"
    /\ vid' = detected_vid
    /\ upc' = "read_pid"
    /\ UNCHANGED <<cbpc, device_available, detected_vid, detected_pid, pid,
                   cdc_open, cdc_dev_present, attached, device_disconnected_sem, clk,
                   last_data_time_ms, now_ms, take_start, wd_closes>>
    /\ UNCHANGED <<bleVars, mainVars, otaVars, upVars, hVars, restarted,
                   lineVars, gattVars>>

\* main.c:270
UReadPid ==
    /\ upc = "read_pid"
    /\ pid' = detected_pid
    /\ upc' = "clear_flag"
    /\ UNCHANGED <<cbpc, device_available, detected_vid, detected_pid, vid,
                   cdc_open, cdc_dev_present, attached, device_disconnected_sem, clk,
                   last_data_time_ms, now_ms, take_start, wd_closes>>
    /\ UNCHANGED <<bleVars, mainVars, otaVars, upVars, hVars, restarted,
                   lineVars, gattVars>>

\* main.c:271
UClearFlag ==
    /\ upc = "clear_flag"
    /\ device_available' = FALSE
    /\ upc' = "open"
    /\ UNCHANGED <<cbpc, detected_vid, detected_pid, vid, pid, cdc_open, cdc_dev_present,
                   attached, device_disconnected_sem, clk, last_data_time_ms,
                   now_ms, take_start, wd_closes>>
    /\ UNCHANGED <<bleVars, mainVars, otaVars, upVars, hVars, restarted,
                   lineVars, gattVars>>

\* The device on the bus: the one new_device_cb was last called for.
AttachedDevice == CHOOSE id \in DeviceIds : id[1] = detected_vid

\* main.c:288-306, 335  cdc_acm_host_open; on success line coding, DTR and the
\* first watchdog timestamp
UOpen(ok) ==
    /\ upc = "open"
    /\ ok => attached /\ <<vid, pid>> = AttachedDevice
    /\ IF ok
       THEN /\ cdc_open' = TRUE
            /\ cdc_dev_present' = TRUE
            /\ last_data_time_ms' = clk
            /\ take_start' = clk
            /\ upc' = "take"
       ELSE /\ upc' = "wait_dev"
            /\ UNCHANGED <<cdc_open, cdc_dev_present, last_data_time_ms, take_start>>
    /\ UNCHANGED <<cbpc, device_available, detected_vid, detected_pid, vid,
                   pid, attached, device_disconnected_sem, clk, now_ms,
                   wd_closes>>
    /\ UNCHANGED <<bleVars, mainVars, otaVars, upVars, hVars, restarted,
                   lineVars, gattVars>>

\* main.c:312-314  xSemaphoreTake returns pdTRUE
UTakeGiven ==
    /\ upc = "take"
    /\ device_disconnected_sem = 1
    /\ device_disconnected_sem' = 0
    /\ take_start' = 0
    /\ upc' = "close"
    /\ UNCHANGED <<cbpc, device_available, detected_vid, detected_pid, vid,
                   pid, cdc_open, cdc_dev_present, attached, clk, last_data_time_ms, now_ms,
                   wd_closes>>
    /\ UNCHANGED <<bleVars, mainVars, otaVars, upVars, hVars, restarted,
                   lineVars, gattVars>>

\* Variant of UTakeTimeout: when the wait times out and a device has been
\* announced, the task leaves the session loop for the announced device.
UTakeTimeout_ActsOnAnnouncement ==
    /\ upc = "take"
    /\ device_disconnected_sem = 0
    /\ clk - take_start >= SEM_WAIT_MS
    /\ take_start' = 0
    /\ upc' = IF device_available THEN "read_vid" ELSE "read_now"
    /\ UNCHANGED <<cbpc, device_available, detected_vid, detected_pid, vid,
                   pid, cdc_open, cdc_dev_present, attached,
                   device_disconnected_sem, clk, last_data_time_ms, now_ms,
                   wd_closes>>
    /\ UNCHANGED <<bleVars, mainVars, otaVars, upVars, hVars, restarted,
                   lineVars, gattVars>>

\* main.c:312  xSemaphoreTake gives up after its one second
UTakeTimeout ==
    /\ upc = "take"
    /\ device_disconnected_sem = 0
    /\ clk - take_start >= SEM_WAIT_MS
    /\ take_start' = 0
    /\ upc' = "read_now"
    /\ UNCHANGED <<cbpc, device_available, detected_vid, detected_pid, vid,
                   pid, cdc_open, cdc_dev_present, attached, device_disconnected_sem, clk,
                   last_data_time_ms, now_ms, wd_closes>>
    /\ UNCHANGED <<bleVars, mainVars, otaVars, upVars, hVars, restarted,
                   lineVars, gattVars>>

\* main.c:317  now_ms = xTaskGetTickCount() * portTICK_PERIOD_MS
UReadNow ==
    /\ upc = "read_now"
    /\ now_ms' = clk
    /\ upc' = "check"
    /\ UNCHANGED <<cbpc, device_available, detected_vid, detected_pid, vid,
                   pid, cdc_open, cdc_dev_present, attached, device_disconnected_sem, clk,
                   last_data_time_ms, take_start, wd_closes>>
    /\ UNCHANGED <<bleVars, mainVars, otaVars, upVars, hVars, restarted,
                   lineVars, gattVars>>

\* main.c:318-320  uint32_t elapsed = now_ms - last_data_time_ms;
\* elapsed > DATA_TIMEOUT_MS.  When last_data_time_ms is the later of the two
\* the subtraction wraps to 2^32 - (last - now), which is above the timeout
\* for every difference the model's clock can show.
WatchdogExpired(now_, last) ==
    IF now_ >= last THEN now_ - last > DATA_TIMEOUT_MS ELSE TRUE

\* main.c:318-323  read last_data_time_ms and decide
UCheckWatchdog ==
    /\ upc = "check"
    /\ IF WatchdogExpired(now_ms, last_data_time_ms)
       THEN /\ upc' = "close"
            /\ wd_closes' = wd_closes + 1
            /\ UNCHANGED take_start
       ELSE /\ upc' = "take"
            /\ take_start' = clk
            /\ UNCHANGED wd_closes
    /\ now_ms' = 0
    /\ UNCHANGED <<cbpc, device_available, detected_vid, detected_pid, vid,
                   pid, cdc_open, cdc_dev_present, attached, device_disconnected_sem, clk,
                   last_data_time_ms>>
    /\ UNCHANGED <<bleVars, mainVars, otaVars, upVars, hVars, restarted,
                   lineVars, gattVars>>

\* main.c:329-333  cdc_acm_host_close, settle, back to waiting for a device
UClose ==
    /\ upc = "close"
    /\ cdc_open' = FALSE
    /\ cdc_dev_present' = FALSE
    /\ upc' = "wait_dev"
    /\ UNCHANGED <<cbpc, device_available, detected_vid, detected_pid, vid,
                   pid, attached, device_disconnected_sem, clk,
                   last_data_time_ms, now_ms, take_start, wd_closes>>
    /\ UNCHANGED <<bleVars, mainVars, otaVars, upVars, hVars, restarted,
                   lineVars, gattVars>>

\* The tick count moves on.
UsbTick ==
    /\ clk < MaxClockSteps * ClockStepMs
    /\ clk' = clk + ClockStepMs
    /\ UNCHANGED <<upc, cbpc, device_available, detected_vid, detected_pid,
                   vid, pid, cdc_open, cdc_dev_present, attached, device_disconnected_sem,
                   last_data_time_ms, now_ms, take_start, wd_closes>>
    /\ UNCHANGED <<bleVars, mainVars, otaVars, upVars, hVars, restarted,
                   lineVars, gattVars>>

UsbTask ==
    \/ UCheck \/ UReadVid \/ UReadPid \/ UClearFlag
    \/ \E ok \in BOOLEAN : UOpen(ok)
    \/ UTakeGiven \/ UTakeTimeout \/ UReadNow \/ UCheckWatchdog \/ UClose

UsbCallbacks ==
    \/ \E id \in DeviceIds : CbEnter(id) \/ CbPid(id)
    \/ CbAvail
    \/ \E data \in RxBlocks : HandleRx(data)
    \/ HandleDisconnected
    \/ Unplug

UsbNext == UsbTask \/ UsbCallbacks \/ UsbTick \/ GattsConnect \/ GattsDisconnect

\* The bridge side of the firmware: the USB host task, the driver's callbacks
\* and the client connecting and disconnecting.
UsbSpec == Init /\ [][UsbNext]_vars

----------------------------------------------------------------------------
(* The other parts of the firmware, each from the state it starts in *)

\* Boot: setup_ble (main.c:541-573) has registered the application and the
\* stack delivers the confirmations, with either status.
BringUpInit ==
    InitUpdate /\ InitUsbIdle /\ InitLine /\ InitSession /\ InitBringUp
    /\ feed = <<>>

BringUpSpec == BringUpInit /\ [][BringUp]_vars

\* The framer on its own: a serial session is open, the buffer is empty and
\* the device is about to send one of FramerInputs, in blocks of any size.
FramerInit ==
    /\ InitUpdate /\ InitLine /\ InitSession /\ BringUpDone
    /\ InitUsbOpen(CHOOSE id \in DeviceIds : TRUE)
    /\ feed \in FramerInputs

\* The sizes of the blocks: one byte, two bytes, all that is left.
FramerNext == \E n \in {1, 2, Len(feed)} : FramerFeed(n)

FramerSpec == FramerInit /\ [][FramerNext]_vars

\* Update mode is active (main.c:593-625) and update_post_handler is in its
\* receive loop (ota_update.c:142): of the up[1] bytes declared, up[2] have
\* been received and written.  The chunks before this point are kept as one
\* entry of the histories.
InitUpload(up) ==
    /\ ota_mode_requested = FALSE
    /\ mpc = "wait1"
    /\ ble_enabled = FALSE
    /\ device_connected = FALSE
    /\ ota_elapsed = 0
    /\ restarted = "none"
    /\ current_state = "UPDATING"
    /\ update_progress = IF up[2] = 0 THEN 0 ELSE Progress(up[2], up[1])
    /\ last_error = 0
    /\ http_server = TRUE
    /\ total_size = up[1]
    /\ received_size = up[2]
    /\ update_partition = NextPartition
    /\ ota_handle = "open"
    /\ written = IF up[2] = 0 THEN <<>> ELSE <<up[2]>>
    /\ boot_partition = RunningPartition
    /\ hpc = "recv"
    /\ content_len = up[1]
    /\ remaining = up[1] - up[2]
    /\ first_chunk = (up[2] = 0)
    /\ recv_len = 0
    /\ hdr_magic = IF up[2] = 0 THEN 0 ELSE ESP_IMAGE_HEADER_MAGIC
    /\ resp = "none"
    /\ cmds = 1
    /\ late_cmd = FALSE
    /\ teardowns = 1
    /\ starts = 1
    /\ accepted = 1
    /\ rx = IF up[2] = 0 THEN <<>> ELSE <<up[2]>>
    /\ fault = "none"
    /\ shorts = 0

\* The radio stack after app_main has shut it down (main.c:600-604).
RadioOff ==
    /\ evq = {}
    /\ reqs = BringUpOrder
    /\ dups = 0
    /\ stored = AttrNames
    /\ adv_config_done = TRUE
    /\ scan_rsp_config_done = TRUE
    /\ advertising = FALSE

\* The receive loop of an upload, from the points of UploadPoints.
ProgressInit ==
    /\ \E up \in UploadPoints : InitUpload(up)
    /\ InitUsbIdle /\ InitLine /\ InitSession /\ RadioOff
    /\ feed = <<>>

ProgressNext ==
    \/ HRecvTimeout
    \/ \E len \in RecvLens, b \in FirstBytes, w \in BOOLEAN :
          HRecvChunk(len, b, w)

ProgressSpec == ProgressInit /\ [][ProgressNext]_vars

\* The GATT server in bridge mode: a serial session is open, clients connect,
\* subscribe, read and write while readings arrive.
BleInit ==
    /\ InitUpdate /\ InitLine /\ InitSession /\ BringUpDone
    /\ \E id \in DeviceIds : InitUsbOpen(id)
    /\ feed = <<>>

BleNext ==
    \/ GattsConnect
    \/ GattsDisconnect
    \/ \E h \in WriteHandles, v \in WriteValues, n \in BOOLEAN :
          GattsWrite(h, v, n)
    \/ \E h \in ReadHandles : GattsRead(h)
    \/ \E data \in BleBlocks : HandleRx(data)
    \/ \E data \in BleBlocks, k \in 0..MaxTornAt :
          GattsReadDuringRx(data, k)

BleSpec == BleInit /\ [][BleNext]_vars

\* The switch to update mode while the bridge is at work: a serial session is
\* open and readings arrive (handle_rx in the driver's task), clients connect
\* and write, and the main loop takes the command and tears the radio down
\* (main.c:592-609).
SwitchInit ==
    /\ InitUpdate /\ InitLine /\ InitSession /\ BringUpDone
    /\ InitUsbOpen(CHOOSE id \in DeviceIds : TRUE)
    /\ feed = <<>>

SwitchNext ==
    \/ MPoll \/ MClear \/ MStopAdv \/ MTeardown \/ MStartWifi
    \/ Gatts
    \/ \E data \in BleBlocks : HandleRx(data)

SwitchSpec == SwitchInit /\ [][SwitchNext]_vars

----------------------------------------------------------------------------
(* Properties of the bridge session *)

\* C10: the watchdog closes an open session only when more than
\* DATA_TIMEOUT_MS have passed since the last call of handle_rx (or since the
\* device was opened), under every interleaving of handle_rx with the task.
C10_WatchdogNotEarly ==
    [][wd_closes' # wd_closes =>
          clk - last_data_time_ms > DATA_TIMEOUT_MS]_vars

----------------------------------------------------------------------------
(* Properties of bring-up *)

\* s is an initial segment of t.
IsPrefix(s, t) == Len(s) <= Len(t) /\ s = SubSeq(t, 1, Len(s))

\* C11: whatever confirmations are delivered, some of them twice, the add
\* requests issued so far are an initial segment of service, Data attribute,
\* notification descriptor, Version, Control: in that order and none twice.
C11_OrderedOnce == IsPrefix(reqs, BringUpOrder)

\* C12: a confirmation that carries an error status stops bring-up: handling
\* it issues no further request.
C12_ErrorHalts ==
    [][\A e \in evq, again \in BOOLEAN, st \in {"ok", "error"} :
          (e.status = "error" /\ GattsBringUp(e, again, st))
              => reqs' = reqs]_vars

----------------------------------------------------------------------------
(* Properties of the line framer *)

\* The greatest of a finite set of numbers.
Greatest(S) == CHOOSE x \in S : \A y \in S : y <= x

\* The characters of codes 32..126 of a stretch of bytes, at most the first
\* 255.
LineOf(stretch) ==
    LET text == SelectSeq(stretch, LAMBDA c : c \in 32..126)
    IN SubSeq(text, 1, MIN(Len(text), 255))

NonEmpty(line) == line # <<>>

\* The stretch of data that ends before position i: it begins after the last
\* CR or LF before i.
StretchBefore(data, i) ==
    LET before == {j \in 1..(i - 1) : data[j] = 10 \/ data[j] = 13}
    IN SubSeq(data, Greatest(before \cup {0}) + 1, i - 1)

\* The lines of the terminated stretches of data that have a printable
\* character, in order.
TerminatedLines(data) ==
    SelectSeq([i \in 1..Len(data) |->
                  IF data[i] = 10 \/ data[i] = 13
                  THEN LineOf(StretchBefore(data, i)) ELSE <<>>],
              NonEmpty)

PendingLine(data) == LineOf(StretchBefore(data, Len(data) + 1))

\* The run of adjacent printable characters that ends before position i.
RunBefore(data, i) ==
    LET before == {j \in 1..(i - 1) : data[j] \notin 32..126}
    IN SubSeq(data, Greatest(before \cup {0}) + 1, i - 1)

\* The maximal runs of adjacent printable characters of data that are
\* directly followed by a terminator, each cut to 255.
TerminatedRuns(data) ==
    SelectSeq([i \in 1..Len(data) |->
                  IF data[i] = 10 \/ data[i] = 13
                  THEN LineOf(RunBefore(data, i)) ELSE <<>>],
              NonEmpty)

\* C13 as stated: the line events are the maximal runs of printable
\* characters of the bytes fed so far that a CR or LF ends.
C13_LinesAreRuns == line_events = TerminatedRuns(fed)

\* C13, amended: for the bytes fed so far from an empty buffer, the line
\* events are, stretch by stretch between terminators, the printable
\* characters of the stretch (other bytes are skipped and do not end the line),
\* cut to the first 255, one event for each stretch that has a printable
\* character; the printable characters after the last terminator are pending
\* in the buffer.
C13_LinesAreStretches ==
    /\ line_events = TerminatedLines(fed)
    /\ line_buffer = PendingLine(fed)

\* "AA\nBB\r\nC" has been fed: two line events, "C" pending.
C13_Witness ==
    /\ fed = <<65, 65, 10, 66, 66, 13, 10, 67>>
    /\ line_events = << <<65, 65>>, <<66, 66>> >>
    /\ line_buffer = <<67>>

\* C14: the buffer holds between 0 and 255 characters; a printable byte that
\* arrives when it holds 255 leaves it unchanged; after a byte that emitted a
\* line event the buffer is empty.
C14_BufferBounded ==
    [][/\ Len(line_buffer) \in 0..(LINE_BUFFER_SIZE - 1)
       /\ Len(line_buffer') \in 0..(LINE_BUFFER_SIZE - 1)
       /\ Len(fed') = Len(fed) + 1 =>
             LET c == fed'[Len(fed')]
             IN /\ (c \in 32..126 /\ Len(line_buffer) = LINE_BUFFER_SIZE - 1)
                       => line_buffer' = line_buffer
                /\ line_events' # line_events => line_buffer' = <<>>]_vars

\* A printable byte has arrived at a full buffer.
C14_Witness ==
    /\ Len(line_buffer) = LINE_BUFFER_SIZE - 1
    /\ Len(fed) > LINE_BUFFER_SIZE - 1
    /\ fed[Len(fed)] = 65
    /\ line_events = <<>>

----------------------------------------------------------------------------
(* Properties of the GATT session *)

\* A read request has just been handled.
ReadStep == gatt_evt'.type = "read" /\ sessVars' # sessVars

\* A write request has just been handled.
WriteStep ==
    gatt_evt'.type = "write" /\ (sessVars' # sessVars \/ cmds' # cmds)

\* C15: a read request gets one response, with status OK, whose payload is the
\* version string for the Version handle, the most recently completed line
\* for the Data handle (the one before or the one after a line that completes
\* during the read) and empty for any other handle; the read leaves
\* last_reading, ota_mode_requested and the session as they were.
C15_ReadAnswered ==
    [][ReadStep =>
          /\ Len(rsp_log') = 1
          /\ rsp_log'[1].status = 0
          /\ CASE gatt_evt'.handle = version_char_handle ->
                     rsp_log'[1].payload = FIRMWARE_VERSION
                [] gatt_evt'.handle = char_handle ->
                     rsp_log'[1].payload \in {last_reading, last_reading'}
                [] OTHER -> rsp_log'[1].payload = <<>>
          /\ rx_calls' = rx_calls => last_reading' = last_reading
          /\ UNCHANGED <<ota_mode_requested, device_connected, subscribed>>]_vars

\* C16: a write request sets ota_mode_requested exactly when it targets the
\* Control handle and its first byte is 0x01, and otherwise leaves the flag as
\* it was; it is answered once, with OK, if the peer asked for a response, and
\* not at all if it did not.
C16_WriteSetsFlag ==
    [][WriteStep =>
          LET e == gatt_evt'
              command == /\ e.handle = ota_char_handle
                         /\ Len(e.value) >= 1
                         /\ e.value[1] = 1
          IN /\ ota_mode_requested' = (ota_mode_requested \/ command)
             /\ rsp_log' = IF e.need_rsp
                           THEN <<[status |-> 0, payload |-> <<>>]>>
                           ELSE <<>>]_vars

\* A command written to the Control handle with a response asked for has set
\* the flag and has been acknowledged.
C16_Witness ==
    /\ gatt_evt.type = "write"
    /\ gatt_evt.handle = ota_char_handle
    /\ gatt_evt.value = <<1>>
    /\ gatt_evt.need_rsp
    /\ ota_mode_requested
    /\ rsp_log = <<[status |-> 0, payload |-> <<>>]>>

\* C17: a notification is pushed only to a client that has enabled
\* notifications in the descriptor since it connected.
C17_NotifyOnlySubscribed == [][sent' # sent => subscribed]_vars

----------------------------------------------------------------------------
(* Properties of advertising, of the shared fields and of the start of
   update mode *)

\* app_main has not yet stopped advertising for a mode switch (main.c:600).
BeforeStopAdv == mpc \in {"poll", "clear", "stop_adv"}

\* C18: while the stack is up, no client is connected and app_main has not
\* begun the switch to update mode, the peripheral is advertising; and from
\* the moment app_main has stopped advertising, advertising stays off.
C18_AdvertisingKept ==
    /\ (Running /\ ble_enabled /\ ~device_connected /\ BeforeStopAdv)
           => advertising
    /\ ~BeforeStopAdv => ~advertising

\* C19: no announcement of a device is lost between the callback and the
\* task: when usb_host_task has cleared device_available and goes on to open
\* the device, with new_device_cb not running and the flag still clear, the
\* identifiers it took are those of the last device announced.
C19_NoLostAnnouncement ==
    (upc = "open" /\ cbpc = "idle" /\ ~device_available)
        => (vid = detected_vid /\ pid = detected_pid)

\* C20: when ota_start_update_mode returns ESP_OK (the step from the start of
\* the HTTP server to the wait loop of app_main) the update has succeeded.
C20_ReturnsWhenDone ==
    [][(mpc = "http_start" /\ mpc' = "wait_init")
          => current_state' = "SUCCESS"]_vars

----------------------------------------------------------------------------
(* Properties of the progress value *)

\* C21: ota_get_progress, which returns update_progress (ota_update.c:428-430),
\* gives -1 in the states IDLE, WIFI_STARTING, WIFI_READY and FAILED and a
\* value in 0..100 in the states UPDATING, VALIDATING and SUCCESS.
C21_ProgressByState ==
    /\ current_state \in {"IDLE", "WIFI_STARTING", "WIFI_READY", "FAILED"}
          => update_progress = -1
    /\ current_state \in {"UPDATING", "VALIDATING", "SUCCESS"}
          => update_progress \in 0..100

\* The percentage floor(r * 100 / t) for 0 <= r <= t, t > 0, found by
\* comparing q * t with 100 * r in halves of 16 bits.
Scaled(k, x) ==
    LET low == k * (x % 65536)
    IN <<k * (x \div 65536) + low \div 65536, low % 65536>>

AtMost(a, b) == a[1] < b[1] \/ (a[1] = b[1] /\ a[2] <= b[2])

ExactPercent(r, t) ==
    CHOOSE q \in 0..100 :
        /\ AtMost(Scaled(q, t), Scaled(100, r))
        /\ q < 100 => ~AtMost(Scaled(q + 1, t), Scaled(100, r))

\* A chunk has just been written and counted (ota_update.c:187-200).
ChunkWritten == received_size' > received_size

\* C22: after each written chunk the stored progress is
\* floor(received * 100 / total); it does not decrease and lies in 0..100.
C22_ProgressIsFloor ==
    [][ChunkWritten =>
          /\ update_progress' = ExactPercent(received_size', total_size)
          /\ update_progress' >= update_progress
          /\ update_progress' \in 0..100]_vars

----------------------------------------------------------------------------
(* Properties of the upload handler's error exits and states *)

\* update_post_handler leaves by an error exit after the length check.
UploadFails == hpc \in {"acquire", "recv", "finalize", "set_boot"} /\ hpc' = "ret"

\* C23: every error exit of the upload handler after the length check leaves
\* state FAILED and the error code of the step that failed (no partition or
\* begin: 0x1004; read or write error: 0x1005; finalize: 0x1006; boot
\* partition: 0x1008), has aborted the write session if one was open, and has
\* sent an error response.
C23_FailureRecorded ==
    [][UploadFails =>
          /\ current_state' = "FAILED"
          /\ fault' \in {"partition", "begin"} => last_error' = 4100
          /\ fault' \in {"recv", "write"} => last_error' = 4101
          /\ hpc = "finalize" => last_error' = 4102
          /\ hpc = "set_boot" => last_error' = 4104
          /\ last_error' \in 4100..4104
          /\ (hpc = "recv" \/ fault' = "malloc") => ota_handle' = "aborted"
          /\ ota_handle' # "open"
          /\ resp' \notin {"none", "200 success"}]_vars

\* esp_ota_write has failed after a chunk was written: FAILED, 0x1005, the
\* session aborted, the reply sent.
C23_Witness ==
    /\ hpc = "ret" /\ fault = "write" /\ written # <<>>
    /\ current_state = "FAILED"
    /\ last_error = 4101
    /\ ota_handle = "aborted"
    /\ resp = "500 Write error"

\* The changes of current_state the state machine allows.
AllowedChange(from, to) ==
    \/ <<from, to>> \in {<<"IDLE", "WIFI_STARTING">>,
                         <<"WIFI_STARTING", "WIFI_READY">>,
                         <<"WIFI_READY", "UPDATING">>,
                         <<"UPDATING", "VALIDATING">>,
                         <<"VALIDATING", "SUCCESS">>}
    \/ to = "FAILED" /\ from \notin {"SUCCESS", "FAILED"}
    \/ to = "IDLE" /\ mpc = "stop"

\* C24: while the firmware runs, current_state changes only along IDLE,
\* WIFI_STARTING, WIFI_READY, UPDATING, VALIDATING, SUCCESS, from a state
\* other than SUCCESS and FAILED to FAILED, or to IDLE in
\* ota_stop_update_mode.
C24_StateOrder ==
    [][(current_state' # current_state /\ restarted' = "none")
          => AllowedChange(current_state, current_state')]_vars

\* httpd_req_recv has just returned HTTPD_SOCK_ERR_TIMEOUT (-3).
ReadTimedOut == hpc = "recv" /\ recv_len' = -3 /\ recv_len' # recv_len

\* C25: a read timeout in the receive loop changes nothing: the handler stays
\* in the loop, and current_state, received_size, remaining, update_progress,
\* first_chunk, the bytes written to flash, the write session and last_error
\* are as before.
C25_TimeoutRetried ==
    [][ReadTimedOut =>
          /\ hpc' = "recv"
          /\ UNCHANGED <<current_state, received_size, remaining,
                         update_progress, first_chunk, written, ota_handle,
                         last_error, resp>>]_vars

\* A read has timed out after a chunk was written; the upload is still being
\* received.
C25_Witness ==
    /\ hpc = "recv" /\ recv_len = -3
    /\ current_state = "UPDATING"
    /\ written # <<>> /\ remaining > 0
    /\ last_error = 0


----------------------------------------------------------------------------
(* Properties of the bridge session's two ways out *)

\* C28: a session is closed by the disconnect semaphore only when the device
\* it opened has been unplugged: xSemaphoreTake returns pdTRUE in a session
\* only for a disconnect event raised in that session, never for a signal an
\* earlier session left in device_disconnected_sem.
C28_ClosedByOwnSignal ==
    [][(upc = "take" /\ upc' = "close") => ~cdc_dev_present]_vars

\* C27: every open attempt uses the identity of one announcement: the vendor
\* and product identifiers usb_host_task passes to cdc_acm_host_open are those
\* one call of new_device_cb stored, under every interleaving of the callback
\* with the task's reads of detected_vid and detected_pid.
C27_IdentityOfOneAnnouncement ==
    upc = "open" => <<vid, pid>> \in DeviceIds

\* The positions of usb_host_task inside while (device_active), main.c:310-325,
\* and at the close that follows it.
InSessionLoop == upc \in {"take", "read_now", "check", "close"}

----------------------------------------------------------------------------
(* The framer and the way the byte stream is cut into calls *)

\* C29: the framer does not depend on how the bytes are split across calls of
\* handle_rx: after the bytes fed so far have been delivered in any blocks,
\* the line events, the line buffer and last_reading are those of one call of
\* handle_rx with all of these bytes.
C29_SplitIndependent ==
    LET whole == FrameBytes([buf |-> <<>>, last |-> <<>>, out |-> <<>>], fed)
    IN /\ line_events = whole.out
       /\ line_buffer = whole.buf
       /\ last_reading = whole.last

\* "AA\n" has been delivered in two or more calls: the line was cut.
C29_Witness ==
    /\ rx_calls >= 2
    /\ fed = <<65, 65, 10>>
    /\ line_events = << <<65, 65>> >>

----------------------------------------------------------------------------
(* The framer during the switch to update mode *)

\* C30: once the main loop has torn the radio stack down for update mode,
\* handle_rx passes no further line to esp_ble_gatts_send_indicate.
C30_NoNotifyAfterTeardown ==
    [][~ble_enabled => sent' = sent]_vars

----------------------------------------------------------------------------
(* Reads of the Data attribute that overlap the framer *)

\* A read of the Data attribute has just been answered while a call of
\* handle_rx was completing a line.
ReadDuringRx ==
    /\ gatt_evt'.type = "read" /\ gatt_evt'.handle = char_handle
    /\ sessVars' # sessVars
    /\ rx_calls' # rx_calls
    /\ last_reading' # last_reading

\* C31: a read of the Data attribute handled while handle_rx completes a line
\* is answered with the line completed before (empty when there was none) or
\* with the new line, never with bytes of both or a part of one, wherever the
\* copy into last_reading stands when the read handler runs.
C31_ReadNeverTorn ==
    [][ReadDuringRx =>
          rsp_log'[1].payload \in {last_reading, last_reading'}]_vars

----------------------------------------------------------------------------
(* The byte counters of an upload *)

\* a <= b for two size_t values, each held as its 32 bits read as an int.
SizeLeq(a, b) == IF (a < 0) = (b < 0) THEN a <= b ELSE b < 0

\* The handler is between the set-up of its receive loop and the call of
\* esp_ota_end (ota_update.c:142-214).
InUpload == hpc \in {"recv", "validating", "finalize"}

\* C32: during an upload received_size is the number of bytes written to the
\* partition by successful calls of esp_ota_write and is at most total_size;
\* the state becomes VALIDATING only with received_size equal to total_size;
\* and no call of httpd_req_recv delivers more than the smaller of remaining
\* and OTA_CHUNK_SIZE, which is what it was asked for.
C32_CountersExact ==
    [][/\ InUpload' => /\ received_size' = SumSeq(written')
                       /\ SizeLeq(received_size', total_size')
       /\ (current_state # "VALIDATING" /\ current_state' = "VALIDATING")
              => received_size' = total_size'
       /\ (hpc = "recv" /\ rx' # rx)
              => recv_len' <= MIN(remaining, OTA_CHUNK_SIZE)]_vars

====
